---- MODULE Spec2Model ----
(***************************************************************************)
(* The category algebra and interning engine of pyramids                   *)
(* (_categorization.pyx): the two string interners, interned symbols,      *)
(* Property, Category construction, hashing, equality, ordering,           *)
(* containment and property promotion.                                     *)
(*                                                                         *)
(* Python objects carry identity.  A str object is a record                *)
(* [chars, addr]: chars is its content (its rank in str order), addr is    *)
(* id(obj).  A symbol is a record [cls, value, serial]: the class that was *)
(* instantiated, the wrapped str object and the number of symbols the      *)
(* interner had already built for that content (so two symbol objects      *)
(* differ as records iff they are different objects).  A Category is a     *)
(* record [oid, name, positive, negative, hash], oid being its identity.   *)
(***************************************************************************)
EXTENDS Integers, Sequences, FiniteSets, TLC

\* ------------------------------------------------------------------ bounds
\* Contents 0..NumNames-1 are used as category names (0 is "_").
NumNames == 2
\* Contents 0..NumProps-1 are used as property labels.
NumProps == 2
\* How many distinct str objects exist for each content.
NumCopies == 2
\* Width of the machine word the model computes hashes in.
WordBits == 10
\* Concurrent parse sessions.
NumSessions == 2
\* Most symbol objects a run builds for one content of one interner.
MaxSerial == 2
MaxChain == 3

\* The content of the literal "_" (line 314).
WILDCARD_CHARS == 0

NameChars == 0 .. (NumNames - 1)
PropChars == 0 .. (NumProps - 1)
AllChars == NameChars \cup PropChars
Copies == 1 .. NumCopies
Sessions == 1 .. NumSessions

\* id() of the k-th str object of content c: distinct objects, distinct ids.
AddrOf(c, k) == c * NumCopies + k

Str(c, k) == [chars |-> c, addr |-> AddrOf(c, k)]

StrObjs == {Str(c, k) : c \in AllChars, k \in Copies}

isinstance_str(x) == DOMAIN x = {"chars", "addr"}

None == [none |-> TRUE]

\* ------------------------------------------------------- machine integers
Pow2(n) == 2 ^ n

ToWord(x) == x % Pow2(WordBits)

FromWord(w) == IF w >= Pow2(WordBits - 1) THEN w - Pow2(WordBits) ELSE w

RECURSIVE XorNat(_, _)
XorNat(a, b) ==
    IF a = 0 THEN b
    ELSE IF b = 0 THEN a
    ELSE ((a + b) % 2) + 2 * XorNat(a \div 2, b \div 2)

\* a ^ b on two's-complement words.
Xor(a, b) == FromWord(XorNat(ToWord(a), ToWord(b)))

\* a << n on two's-complement words.
Shl(a, n) == FromWord(ToWord(a * Pow2(n)))

\* ------------------------------------------------------- InternedString
InternedString__cinit__(cls, value, serial) ==
    [cls |-> cls, value |-> value, serial |-> serial]

is_str(a, b) == a.addr = b.addr

InternedString__eq__(self, other) == is_str(self.value, other.value)

InternedString__lt__(self, other) ==
    ~is_str(self.value, other.value) /\ self.value.chars < other.value.chars

InternedString__le__(self, other) ==
    is_str(self.value, other.value) \/ self.value.chars <= other.value.chars

InternedString__hash__(self) == self.value.addr

isinstance_Property(x) == DOMAIN x = {"cls", "value", "serial"} /\ x.cls = "Property"

\* -------------------------------------------------------- StringInterner
\* An interner is [map, subtype, made]: map is _intern_map (content -> symbol
\* or None), subtype is _subtype, made counts the symbols built per content.
StringInterner__init__(subtype) ==
    [map |-> [c \in AllChars |-> None],
     subtype |-> subtype,
     made |-> [c \in AllChars |-> 0]]

\* self._intern_map[s] = result: the interner with result stored under s.
stored(I, s, result) ==
    [map |-> [c \in AllChars |-> IF c = s.chars THEN result ELSE I.map[c]],
     subtype |-> I.subtype,
     made |-> [c \in AllChars |-> IF c = s.chars THEN I.made[c] + 1 ELSE I.made[c]]]

\* intern without the lookup of line 78: every call builds and stores a symbol.
intern_no_lookup(I, s) ==
    LET result == InternedString__cinit__(I.subtype, s, I.made[s.chars])
    IN [interner |-> stored(I, s, result), result |-> result]

\* intern(s): the interner afterwards and the symbol returned.
intern(I, s) ==
    IF I.map[s.chars] # None
    THEN [interner |-> I, result |-> I.map[s.chars]]
    ELSE LET result == InternedString__cinit__(I.subtype, s, I.made[s.chars])
         IN [interner |-> stored(I, s, result), result |-> result]

\* -------------------------------------------------------------- Property
\* Property.get(name): the property interner afterwards and the Property.
Property_get(P, name) ==
    IF isinstance_Property(name)
    THEN [interner |-> P, result |-> name]
    ELSE intern(P, name)

\* ------------------------------------------------- frozenset of symbols
\* Python's set operations decide membership by __hash__ and __eq__.
set_contains(S, x) == \E y \in S : x = y \/ InternedString__eq__(x, y)

frozenset(S) ==
    CHOOSE T \in SUBSET S :
        /\ \A x \in S : set_contains(T, x)
        /\ \A x \in T : \A y \in T \ {x} : ~InternedString__eq__(x, y)

set_and(a, b) == {x \in a : set_contains(b, x)}

set_sub(a, b) == {x \in a : ~set_contains(b, x)}

set_or(a, b) == a \cup {x \in b : ~set_contains(a, x)}

set_le(a, b) == Cardinality(a) <= Cardinality(b) /\ \A x \in a : set_contains(b, x)

set_eq(a, b) == Cardinality(a) = Cardinality(b) /\ \A x \in a : set_contains(b, x)

EMPTY_SET == {}

\* The loop of make_property_set over the items still to visit.
RECURSIVE make_property_loop(_, _, _)
make_property_loop(P, todo, props) ==
    IF todo = {}
    THEN [interner |-> P, result |-> frozenset(props)]
    ELSE LET p == CHOOSE x \in todo : TRUE
             got == IF isinstance_str(p)
                    THEN Property_get(P, p)
                    ELSE [interner |-> P, result |-> p]
         IN make_property_loop(got.interner, todo \ {p}, props \cup {got.result})

\* A collection argument is None or [items |-> a set of str objects and
\* Properties].
Collection(S) == [items |-> S]

\* make_property_set(properties): the property interner afterwards and the
\* frozenset.
make_property_set(P, properties) ==
    IF properties # None /\ properties.items # {}
    THEN make_property_loop(P, properties.items, {})
    ELSE [interner |-> P, result |-> EMPTY_SET]

\* -------------------------------------------------------------- Category
RECURSIVE hash_positives(_, _)
hash_positives(hash_value, positives) ==
    IF positives = {} THEN hash_value
    ELSE LET prop == CHOOSE x \in positives : TRUE
         IN hash_positives(Xor(hash_value, Shl(InternedString__hash__(prop), 1)),
                           positives \ {prop})

RECURSIVE hash_negatives(_, _)
hash_negatives(hash_value, negatives) ==
    IF negatives = {} THEN hash_value
    ELSE LET prop == CHOOSE x \in negatives : TRUE
         IN hash_negatives(Xor(hash_value, Shl(-InternedString__hash__(prop), 2)),
                           negatives \ {prop})

\* Lines 155-169 of Category.__cinit__: the name and the two sets normalized
\* (both interners afterwards), the hash, and the properties in both sets.
cinit_locals(N, P, name, positive_properties, negative_properties) ==
    LET named == IF isinstance_str(name)
                 THEN intern(N, name)
                 ELSE [interner |-> N, result |-> name]
        pos == make_property_set(P, positive_properties)
        neg == make_property_set(pos.interner, negative_properties)
    IN [name_interner |-> named.interner,
        property_interner |-> neg.interner,
        i_name |-> named.result,
        positives |-> pos.result,
        negatives |-> neg.result,
        hash_value |-> hash_negatives(
                           hash_positives(InternedString__hash__(named.result), pos.result),
                           neg.result),
        both |-> set_and(pos.result, neg.result)]

\* Category.__cinit__ without the check of lines 169-171.
Category__cinit__unchecked(N, P, oid, name, positive_properties, negative_properties) ==
    LET v == cinit_locals(N, P, name, positive_properties, negative_properties)
    IN [name_interner |-> v.name_interner,
        property_interner |-> v.property_interner,
        result |-> [oid |-> oid, name |-> v.i_name, positive |-> v.positives,
                    negative |-> v.negatives, hash |-> v.hash_value],
        raised |-> None]

\* Category.__cinit__ whose error names one offending property only.
Category__cinit__first_only(N, P, oid, name, positive_properties, negative_properties) ==
    LET v == cinit_locals(N, P, name, positive_properties, negative_properties)
    IN [name_interner |-> v.name_interner,
        property_interner |-> v.property_interner,
        result |-> IF v.both # {}
                   THEN None
                   ELSE [oid |-> oid, name |-> v.i_name, positive |-> v.positives,
                         negative |-> v.negatives, hash |-> v.hash_value],
        raised |-> IF v.both # {}
                   THEN [exc |-> "ValueError", both |-> {CHOOSE x \in v.both : TRUE}]
                   ELSE None]

\* Category(name, positive_properties, negative_properties), built as object
\* oid: both interners afterwards, and either the new Category (raised is None)
\* or the exception raised (result is None), which carries the properties its
\* message lists.
Category__cinit__(N, P, oid, name, positive_properties, negative_properties) ==
    LET v == cinit_locals(N, P, name, positive_properties, negative_properties)
    IN [name_interner |-> v.name_interner,
        property_interner |-> v.property_interner,
        result |-> IF v.both # {}
                   THEN None
                   ELSE [oid |-> oid,
                         name |-> v.i_name,
                         positive |-> v.positives,
                         negative |-> v.negatives,
                         hash |-> v.hash_value],
        raised |-> IF v.both # {}
                   THEN [exc |-> "ValueError", both |-> v.both]
                   ELSE None]

is_cat(a, b) == a.oid = b.oid

Category__hash__(self) == self.hash

\* __eq__ that compares the name and the positive set only.
Category__eq__positive_only(self, other) ==
    \/ is_cat(self, other)
    \/ /\ self.name = other.name
       /\ set_eq(self.positive, other.positive)

Category__eq__(self, other) ==
    \/ is_cat(self, other)
    \/ /\ self.hash = other.hash
       /\ self.name = other.name
       /\ set_eq(self.positive, other.positive)
       /\ set_eq(self.negative, other.negative)

\* sorted(properties): ascending by InternedString.__lt__.
RECURSIVE sorted(_)
sorted(S) ==
    IF S = {} THEN << >>
    ELSE LET least == CHOOSE x \in S : \A y \in S \ {x} : ~InternedString__lt__(y, x)
         IN << least >> \o sorted(S \ {least})

\* Python's list ==, != and < on lists of symbols.
item_eq(x, y) == x = y \/ InternedString__eq__(x, y)

list_eq(a, b) ==
    /\ Len(a) = Len(b)
    /\ \A i \in 1 .. Len(a) : item_eq(a[i], b[i])

list_lt(a, b) ==
    LET differ == {i \in 1 .. Len(a) : i <= Len(b) /\ ~item_eq(a[i], b[i])}
    IN IF differ = {}
       THEN Len(a) < Len(b)
       ELSE LET i == CHOOSE j \in differ : \A k \in differ : j <= k
            IN InternedString__lt__(a[i], b[i])

list_le(a, b) ==
    LET differ == {i \in 1 .. Len(a) : i <= Len(b) /\ ~item_eq(a[i], b[i])}
    IN IF differ = {}
       THEN Len(a) <= Len(b)
       ELSE LET i == CHOOSE j \in differ : \A k \in differ : j <= k
            IN InternedString__le__(a[i], b[i])

\* __lt__ ending in the non-strict comparison __le__ ends in.
Category__lt__nonstrict(self, other) ==
    IF self.name # other.name
    THEN InternedString__lt__(self.name, other.name)
    ELSE IF Cardinality(self.positive) # Cardinality(other.positive)
    THEN Cardinality(self.positive) < Cardinality(other.positive)
    ELSE IF Cardinality(self.negative) # Cardinality(other.negative)
    THEN Cardinality(self.negative) < Cardinality(other.negative)
    ELSE LET self_sorted_positive == sorted(self.positive)
             other_sorted_positive == sorted(other.positive)
         IN IF ~list_eq(self_sorted_positive, other_sorted_positive)
            THEN list_lt(self_sorted_positive, other_sorted_positive)
            ELSE list_le(sorted(self.negative), sorted(other.negative))

Category__le__(self, other) ==
    IF self.name # other.name
    THEN InternedString__lt__(self.name, other.name)
    ELSE IF Cardinality(self.positive) # Cardinality(other.positive)
    THEN Cardinality(self.positive) < Cardinality(other.positive)
    ELSE IF Cardinality(self.negative) # Cardinality(other.negative)
    THEN Cardinality(self.negative) < Cardinality(other.negative)
    ELSE LET my_sorted_positive == sorted(self.positive)
             other_sorted_positive == sorted(other.positive)
         IN IF ~list_eq(my_sorted_positive, other_sorted_positive)
            THEN list_lt(my_sorted_positive, other_sorted_positive)
            ELSE list_le(sorted(self.negative), sorted(other.negative))

Category__lt__(self, other) ==
    IF self.name # other.name
    THEN InternedString__lt__(self.name, other.name)
    ELSE IF Cardinality(self.positive) # Cardinality(other.positive)
    THEN Cardinality(self.positive) < Cardinality(other.positive)
    ELSE IF Cardinality(self.negative) # Cardinality(other.negative)
    THEN Cardinality(self.negative) < Cardinality(other.negative)
    ELSE LET self_sorted_positive == sorted(self.positive)
             other_sorted_positive == sorted(other.positive)
         IN IF ~list_eq(self_sorted_positive, other_sorted_positive)
            THEN list_lt(self_sorted_positive, other_sorted_positive)
            ELSE list_lt(sorted(self.negative), sorted(other.negative))

\* The module constant CATEGORY_WILDCARD: the symbol the name interner built
\* for the literal "_" while the module was imported.
CATEGORY_WILDCARD ==
    intern(StringInterner__init__("InternedString"), Str(WILDCARD_CHARS, 1)).result

\* is_wildcard that compares the name with the str "_" instead of the symbol.
is_wildcard_str(self) == DOMAIN self.name = {"chars", "addr"}

is_wildcard(self) == self.name = CATEGORY_WILDCARD

\* __contains__ without the test of line 284.
Category__contains__no_negative(self, other) ==
    \/ is_cat(self, other)
    \/ /\ (self.name = other.name \/ is_wildcard(self))
       /\ set_le(self.positive, other.positive)

Category__contains__(self, other) ==
    \/ is_cat(self, other)
    \/ /\ (self.name = other.name \/ is_wildcard(self))
       /\ set_le(self.positive, other.positive)
       /\ set_and(self.negative, other.positive) = {}

\* promote_properties with & where line 297-298 have |.
promote_properties_and(N, P, oid, self, positive, negative) ==
    LET pos == make_property_set(P, positive)
        neg == make_property_set(pos.interner, negative)
    IN Category__cinit__(
           N, neg.interner, oid, self.name,
           Collection(set_and(self.positive, set_sub(pos.result, self.negative))),
           Collection(set_and(self.negative, set_sub(neg.result, self.positive))))

\* promote_properties without the two subtractions.
promote_properties_no_sub(N, P, oid, self, positive, negative) ==
    LET pos == make_property_set(P, positive)
        neg == make_property_set(pos.interner, negative)
    IN Category__cinit__(
           N, neg.interner, oid, self.name,
           Collection(set_or(self.positive, pos.result)),
           Collection(set_or(self.negative, neg.result)))

\* promote_properties where an added property overrides self's opposite set.
promote_properties_override(N, P, oid, self, positive, negative) ==
    LET pos == make_property_set(P, positive)
        neg == make_property_set(pos.interner, negative)
    IN Category__cinit__(
           N, neg.interner, oid, self.name,
           Collection(set_or(set_sub(self.positive, neg.result), pos.result)),
           Collection(set_or(set_sub(self.negative, pos.result), neg.result)))

\* self.promote_properties(positive, negative), the new object being oid.
promote_properties(N, P, oid, self, positive, negative) ==
    LET pos == make_property_set(P, positive)
        neg == make_property_set(pos.interner, negative)
        positives == pos.result
        negatives == neg.result
    IN Category__cinit__(
           N, neg.interner, oid, self.name,
           Collection(set_or(self.positive, set_sub(positives, self.negative))),
           Collection(set_or(self.negative, set_sub(negatives, self.positive))))

\* ----------------------------------------------------------------- state
VARIABLES
    name_interner,      \* _category_name_interner
    property_interner,  \* _property_interner
    self,               \* the Category the caller holds, or None
    other,              \* a second Category the caller holds, or None
    ret,                \* the last call: what was asked and what came back
    sess                \* the parse sessions that are inside intern

vars == << name_interner, property_interner, self, other, ret, sess >>

NameStrs == {Str(c, k) : c \in NameChars, k \in Copies}
PropStrs == {Str(c, k) : c \in PropChars, k \in Copies}

\* The str literals of the calling code: one str object per content.
NameLiterals == {Str(c, 1) : c \in NameChars}
PropLiterals == {Str(c, 1) : c \in PropChars}

\* The symbols each interner holds.
NameSymbols == {name_interner.map[c] : c \in AllChars} \ {None}
PropSymbols == {property_interner.map[c] : c \in AllChars} \ {None}

\* What a caller passes as a property collection: nothing, or str literals.
CollectionArgs == {None} \cup {Collection(S) : S \in SUBSET PropLiterals}

Idle == [pc |-> "idle"]

\* The interpreter's ids of the two Category objects a caller holds.
SELF_OID == 1
OTHER_OID == 2

\* The name interner as module import leaves it, lines 312-314.
ImportedNames ==
    intern(StringInterner__init__("InternedString"), Str(WILDCARD_CHARS, 1)).interner

\* Module import, lines 312-317.
Init ==
    /\ name_interner = ImportedNames
    /\ property_interner = StringInterner__init__("Property")
    /\ self = None
    /\ other = None
    /\ ret = [op |-> "import"]
    /\ sess = [i \in Sessions |-> Idle]

\* _category_name_interner.intern(s)
Intern(s) ==
    \E got \in {intern(name_interner, s)} :
       /\ name_interner' = got.interner
       /\ ret' = [op |-> "intern", arg |-> s, result |-> got.result]
       /\ UNCHANGED << property_interner, self, other, sess >>

\* Property.get(name)
PropertyGet(name) ==
    \E got \in {Property_get(property_interner, name)} :
       /\ property_interner' = got.interner
       /\ ret' = [op |-> "get", arg |-> name, result |-> got.result]
       /\ UNCHANGED << name_interner, self, other, sess >>

\* self = Category(name, positive_properties, negative_properties); self is
\* None afterwards when the constructor raised.
Create(name, positive_properties, negative_properties) ==
    \E got \in {Category__cinit__(name_interner, property_interner, SELF_OID,
                                  name, positive_properties, negative_properties)} :
       /\ name_interner' = got.name_interner
       /\ property_interner' = got.property_interner
       /\ self' = got.result
       /\ ret' = [op |-> "create", name |-> name,
                  positive |-> positive_properties,
                  negative |-> negative_properties,
                  result |-> got.result, raised |-> got.raised]
       /\ UNCHANGED << other, sess >>

\* other = self.promote_properties(positive, negative); other is None
\* afterwards when the call raised.
Promote(positive, negative) ==
    /\ self # None
    /\ \E got \in {promote_properties(name_interner, property_interner, OTHER_OID,
                                      self, positive, negative)} :
          /\ name_interner' = got.name_interner
          /\ property_interner' = got.property_interner
          /\ other' = got.result
          /\ ret' = [op |-> "promote",
                     positive |-> positive, negative |-> negative,
                     result |-> got.result, raised |-> got.raised]
          /\ UNCHANGED << self, sess >>

\* a in b, a == b, a < b, a <= b on two Categories the caller holds.
Contains(a, b) ==
    /\ ret' = [op |-> "contains", self |-> a, other |-> b,
               result |-> Category__contains__(a, b)]
    /\ UNCHANGED << name_interner, property_interner, self, other, sess >>

Equal(a, b) ==
    /\ ret' = [op |-> "eq", self |-> a, other |-> b,
               result |-> Category__eq__(a, b)]
    /\ UNCHANGED << name_interner, property_interner, self, other, sess >>

Less(a, b) ==
    /\ ret' = [op |-> "lt", self |-> a, other |-> b,
               result |-> Category__lt__(a, b)]
    /\ UNCHANGED << name_interner, property_interner, self, other, sess >>

LessEqual(a, b) ==
    /\ ret' = [op |-> "le", self |-> a, other |-> b,
               result |-> Category__le__(a, b)]
    /\ UNCHANGED << name_interner, property_interner, self, other, sess >>

\* x == y on two interned symbols the caller holds (lines 34-35).
SymbolEqual(x, y) ==
    /\ ret' = [op |-> "symbol_eq", self |-> x, other |-> y,
               result |-> InternedString__eq__(x, y)]
    /\ UNCHANGED << name_interner, property_interner, self, other, sess >>

\* ------------------------------------------- the interning machine (Spec)
\* Any sequence of calls that reach an interner, from module import on.
Next ==
    \/ \E s \in NameStrs : Intern(s)
    \/ \E x \in PropStrs \cup PropSymbols : PropertyGet(x)
    \/ \E n \in NameStrs : Create(n, None, None)

Spec == Init /\ [][Next]_vars

\* --------------------------------------- the category algebra (SpecAlg)
\* One call of one operation, on operands drawn from every Category the
\* constructor builds over the vocabulary.  When the grammar has been loaded,
\* each content was interned from the loader's str object (copy NumCopies),
\* while callers pass their own literals.
RECURSIVE InternAll(_, _)
InternAll(I, strs) ==
    IF strs = {} THEN I
    ELSE LET s == CHOOSE x \in strs : TRUE
         IN InternAll(intern(I, s).interner, strs \ {s})

LoadedNames == InternAll(ImportedNames, {Str(c, NumCopies) : c \in NameChars})

LoadedProps ==
    InternAll(StringInterner__init__("Property"), {Str(c, NumCopies) : c \in PropChars})

\* Every Category the constructor builds, as object oid, over the vocabulary.
CategoriesOver(N, P, oid) ==
    {Category__cinit__(N, P, oid, n, Collection(p), Collection(q)).result :
        n \in NameLiterals, p \in SUBSET PropLiterals, q \in SUBSET PropLiterals} \ {None}

Categories(oid) == CategoriesOver(name_interner, property_interner, oid)

\* Either nothing but the module import has happened and the caller holds
\* nothing, or the grammar is loaded and the caller holds any such Categories.
InitAlg ==
    \/ /\ name_interner = ImportedNames
       /\ property_interner = StringInterner__init__("Property")
       /\ self = None
       /\ other = None
       /\ ret = [op |-> "import"]
       /\ sess = [i \in Sessions |-> Idle]
    \/ /\ name_interner = LoadedNames
       /\ property_interner = LoadedProps
       /\ self \in CategoriesOver(LoadedNames, LoadedProps, SELF_OID) \cup {None}
       /\ other \in CategoriesOver(LoadedNames, LoadedProps, OTHER_OID) \cup {None}
       /\ self = None => other = None
       /\ ret = [op |-> "import"]
       /\ sess = [i \in Sessions |-> Idle]

Held == {self, other} \ {None}

Fresh == ret.op = "import"

CallCreate ==
    /\ Fresh /\ self = None
    /\ \E n \in NameLiterals \cup {CATEGORY_WILDCARD} :
           \E p \in CollectionArgs : \E q \in CollectionArgs : Create(n, p, q)

CallPromote ==
    /\ Fresh /\ other = None
    /\ \E p \in CollectionArgs : \E q \in CollectionArgs : Promote(p, q)

CallContains == Fresh /\ \E a \in Held : \E b \in Held : Contains(a, b)

CallEqual == Fresh /\ \E a \in Held : \E b \in Held : Equal(a, b)

CallLess == Fresh /\ \E a \in Held : \E b \in Held : Less(a, b)

CallLessEqual == Fresh /\ \E a \in Held : \E b \in Held : LessEqual(a, b)

CallSymbolEqual ==
    Fresh /\ \E x \in NameSymbols \cup PropSymbols :
                 \E y \in NameSymbols \cup PropSymbols : SymbolEqual(x, y)

NextAlg ==
    \/ CallCreate
    \/ CallPromote
    \/ CallContains
    \/ CallEqual
    \/ CallLess
    \/ CallLessEqual
    \/ CallSymbolEqual

SpecAlg == InitAlg /\ [][NextAlg]_vars

\* ------------------------------------------- promotion chains (SpecChain)
\* The parser builds a node's category from a constituent's category by
\* promote_properties, and the next node's from that one: self is the first
\* Category c0 of the chain and other the latest one, object number other.oid.
InitChain ==
    /\ name_interner = LoadedNames
    /\ property_interner = LoadedProps
    /\ self \in CategoriesOver(LoadedNames, LoadedProps, SELF_OID)
    /\ other = self
    /\ ret = [op |-> "import"]
    /\ sess = [i \in Sessions |-> Idle]

\* other = other.promote_properties(positive, negative); when the call raises
\* the assignment does not happen and the chain stays where it was.
ChainPromote(positive, negative) ==
    /\ other.oid < MaxChain
    /\ \E got \in {promote_properties(name_interner, property_interner,
                                      other.oid + 1, other, positive, negative)} :
          /\ name_interner' = got.name_interner
          /\ property_interner' = got.property_interner
          /\ other' = IF got.raised = None THEN got.result ELSE other
          /\ ret' = [op |-> "promote",
                     positive |-> positive, negative |-> negative,
                     result |-> got.result, raised |-> got.raised]
          /\ UNCHANGED << self, sess >>

NextChain ==
    \E p \in CollectionArgs : \E q \in CollectionArgs : ChainPromote(p, q)

SpecChain == InitChain /\ [][NextChain]_vars

\* ------------------------------------------- concurrent sessions (SpecConc)
\* Parse sessions call _category_name_interner.intern concurrently.  The
\* method takes no lock, so another session may run between its statements.

\* Line 78: session i calls intern(s) and evaluates "s in self._intern_map".
Enter(i, s) ==
    /\ sess[i].pc \in {"idle", "returned"}
    /\ sess' = [sess EXCEPT ![i] =
                   [pc |-> IF name_interner.map[s.chars] # None THEN "hit" ELSE "miss",
                    arg |-> s]]
    /\ UNCHANGED << name_interner, property_interner, self, other, ret >>

\* Line 79: return self._intern_map[s].
Hit(i) ==
    /\ sess[i].pc = "hit"
    /\ sess' = [sess EXCEPT ![i] =
                   [pc |-> "returned", arg |-> sess[i].arg,
                    result |-> name_interner.map[sess[i].arg.chars]]]
    /\ UNCHANGED << name_interner, property_interner, self, other, ret >>

\* Lines 81-83: build the symbol, store it, return it.
Miss(i) ==
    /\ sess[i].pc = "miss"
    /\ name_interner.made[sess[i].arg.chars] < MaxSerial
    /\ LET s == sess[i].arg
           result == InternedString__cinit__(name_interner.subtype, s,
                                             name_interner.made[s.chars])
       IN /\ name_interner' = stored(name_interner, s, result)
          /\ sess' = [sess EXCEPT ![i] =
                         [pc |-> "returned", arg |-> s, result |-> result]]
    /\ UNCHANGED << property_interner, self, other, ret >>

NextConc ==
    \/ \E i \in Sessions : \E s \in NameStrs : Enter(i, s)
    \/ \E i \in Sessions : Hit(i)
    \/ \E i \in Sessions : Miss(i)

SpecConc == Init /\ [][NextConc]_vars

\* ================================================================ claims
\* What the last call returned is the symbol its interner stores for the
\* string passed (a symbol of that very content), and no interner has built
\* more than one symbol for any content.
ReturnsStored ==
    /\ ret.op = "intern" =>
           /\ ret.result = name_interner.map[ret.arg.chars]
           /\ ret.result.value.chars = ret.arg.chars
    /\ (ret.op = "get" /\ isinstance_str(ret.arg)) =>
           /\ ret.result = property_interner.map[ret.arg.chars]
           /\ ret.result.value.chars = ret.arg.chars
    /\ ret.op = "create" =>
           /\ ret.result.name = name_interner.map[ret.name.chars]
           /\ ret.result.name.value.chars = ret.name.chars
    /\ \A c \in AllChars : name_interner.made[c] <= 1 /\ property_interner.made[c] <= 1

\* A symbol an interner stores for a content stays the one it stores.
NeverReplaced ==
    \A c \in AllChars :
        /\ name_interner.map[c] # None => name_interner'.map[c] = name_interner.map[c]
        /\ property_interner.map[c] # None =>
               property_interner'.map[c] = property_interner.map[c]

\* C1: over any sequence of intern calls on an interner (direct, through
\* Property.get, or through Category construction with a str name), each call
\* returns the symbol the interner stores for that content, the first call for
\* a content stores it and no later call replaces it or builds another: equal
\* strings always get the identical symbol object.
C1_InternIdempotent == [][NeverReplaced /\ ReturnsStored']_vars

\* C1 witness: a call passed a str object other than the one the stored symbol
\* wraps (an equal string, another object) and got the stored symbol back.
C1_Witness ==
    /\ ret.op = "intern"
    /\ ret.arg.addr # ret.result.value.addr
    /\ ret.result = name_interner.map[ret.arg.chars]

\* ------------------------------------------------- reading a call's record
\* The contents of a set of symbols.
Chars(S) == {x.value.chars : x \in S}

\* The Properties a collection argument stands for once it is normalized.
Normalized(properties) ==
    IF properties = None THEN {}
    ELSE {property_interner.map[s.chars] : s \in properties.items}

\* The symbol a name argument stands for once it is normalized.
NormalizedName(name) ==
    IF isinstance_str(name) THEN name_interner.map[name.chars] ELSE name

Constructed == ret.op \in {"create", "promote"}

\* Every Category in sight: the ones the caller holds and the one just returned.
Existing ==
    Held \cup (IF Constructed /\ ret.result # None THEN {ret.result} ELSE {})

\* C2: every Category that exists (the operands, which range over all the
\* constructor builds, and whatever Category(...) or promote_properties
\* returned from them) has no property, by object or by content, in both its
\* positive and its negative set.
C2_Disjoint ==
    \A c \in Existing :
        /\ c.positive \cap c.negative = {}
        /\ Chars(c.positive) \cap Chars(c.negative) = {}

\* C2 witness: promote_properties returned a Category although it was asked to
\* assert a property self denies and to deny one self asserts.
C2_Witness ==
    /\ ret.op = "promote"
    /\ other # None
    /\ Normalized(ret.positive) \cap self.negative # {}
    /\ Normalized(ret.negative) \cap self.positive # {}

\* What promote_properties is to return for the call recorded in ret.
PromotedPositive ==
    self.positive \cup (Normalized(ret.positive) \ self.negative)

PromotedNegative ==
    self.negative \cup (Normalized(ret.negative) \ self.positive)

PromoteReturned ==
    /\ other = ret.result
    /\ other.oid # self.oid
    /\ other.name = self.name
    /\ other.positive = PromotedPositive
    /\ other.negative = PromotedNegative

\* C4: the Category promote_properties returns is a new object with self's
\* name, positive set self.positive \cup (extra_positive - self.negative) and
\* negative set self.negative \cup (extra_negative - self.positive), and the
\* call leaves self (name, sets, hash) as it was.  (Whether the call returns
\* at all is C6.)
C4_PromoteResult ==
    [][ret'.op = "promote" =>
           /\ self' = self
           /\ ret'.raised = None => PromoteReturned']_vars

\* C4 witness: a promotion returned where an addition was dropped because
\* self denies it and another addition went through.
C4_Witness ==
    /\ ret.op = "promote"
    /\ other # None
    /\ Normalized(ret.positive) \cap self.negative # {}
    /\ other.positive # self.positive

\* C5: Category(name, positive, negative) raises exactly when the normalized
\* sets intersect, its error names every property of the intersection and no
\* Category comes back; otherwise the Category that comes back has exactly the
\* normalized name and sets.
C5_CreateAtomic ==
    ret.op = "create" =>
        LET P == Normalized(ret.positive)
            N == Normalized(ret.negative)
        IN /\ (ret.raised # None) <=> (P \cap N # {})
           /\ ret.raised # None =>
                  /\ ret.raised.both = P \cap N
                  /\ ret.result = None
                  /\ self = None
           /\ ret.raised = None =>
                  /\ self = ret.result
                  /\ self.name = NormalizedName(ret.name)
                  /\ self.positive = P
                  /\ self.negative = N

\* C5 witness: a construction failed on two offending properties.
C5_Witness ==
    /\ ret.op = "create"
    /\ ret.raised # None
    /\ Cardinality(ret.raised.both) >= 2

\* A property both extras carry and self has in neither set.
SharedFree ==
    (Normalized(ret.positive) \cap Normalized(ret.negative))
        \ (self.positive \cup self.negative)

\* C6 as claimed: promote_properties never raises.
C6_NeverRaises == ret.op = "promote" => (ret.raised = None /\ other # None)

\* C6 amended: promote_properties raises exactly when a property that is in
\* neither of self's sets is in both extra_positive and extra_negative;
\* otherwise it returns a Category.
C6_RaisesOnSharedFree ==
    ret.op = "promote" =>
        /\ (ret.raised # None) <=> (SharedFree # {})
        /\ (ret.raised = None) <=> (other # None)
        /\ ret.raised # None => ret.raised.both = SharedFree

\* C6 witness: a promotion raised.
C6_Witness ==
    /\ ret.op = "promote"
    /\ ret.raised # None
    /\ other = None
    /\ SharedFree # {}

\* ----------------------------------------------------------- comparisons
Compared == ret.op \in {"contains", "eq", "lt", "le"}

WildcardNamed(c) == c.name.value.chars = WILDCARD_CHARS

\* The three conditions of containment, on the sets themselves.
Subsumes(a, b) ==
    /\ a.name = b.name \/ WildcardNamed(a)
    /\ a.positive \subseteq b.positive
    /\ a.negative \cap b.positive = {}

\* C3: contains(self, other) is true iff self is other, or self's name is
\* other's name symbol or the wildcard, self.positive is a subset of
\* other.positive and self.negative is disjoint from other.positive; and a
\* Category with other's name and positive set gives the same answer whatever
\* its negative set is.
C3_ContainsIff ==
    ret.op = "contains" =>
        /\ ret.result <=> (ret.self.oid = ret.other.oid \/ Subsumes(ret.self, ret.other))
        /\ \A b \in Categories(ret.other.oid) :
               (b.name = ret.other.name /\ b.positive = ret.other.positive)
                   => (Category__contains__(ret.self, b) <=> ret.result)

\* C3 witness: a wildcard-named pattern with a requirement and a prohibition
\* contains another object of another name that has negative properties.
C3_Witness ==
    /\ ret.op = "contains"
    /\ ret.result
    /\ ret.self.oid # ret.other.oid
    /\ ret.self.name # ret.other.name
    /\ ret.self.positive # {}
    /\ ret.self.negative # {}
    /\ ret.other.negative # {}

\* The hash the specification describes, taken over the sorted properties.
RECURSIVE XorShifted(_, _, _)
XorShifted(acc, props, sign_shift) ==
    IF props = << >> THEN acc
    ELSE XorShifted(
             Xor(acc, Shl(sign_shift[1] * Head(props).value.addr, sign_shift[2])),
             Tail(props), sign_shift)

DescribedHash(c) ==
    XorShifted(XorShifted(c.name.value.addr, sorted(c.positive), << 1, 1 >>),
               sorted(c.negative), << -1, 2 >>)

\* C8: a == b iff a and b have the same name symbol, equal positive sets and
\* equal negative sets; a == b implies hash(a) == hash(b); and the hash is the
\* name's hash XOR hash(p) << 1 over the positives XOR (-hash(p)) << 2 over
\* the negatives, as stored at construction.
C8_EqualityAndHash ==
    ret.op = "eq" =>
        LET a == ret.self
            b == ret.other
        IN /\ ret.result <=> (/\ a.name = b.name
                              /\ a.positive = b.positive
                              /\ a.negative = b.negative)
           /\ ret.result => Category__hash__(a) = Category__hash__(b)
           /\ Category__hash__(a) = DescribedHash(a)
           /\ Category__hash__(b) = DescribedHash(b)

\* C8 witness: two different objects with equal names and non-empty equal
\* sets compared equal.
C8_Witness ==
    /\ ret.op = "eq"
    /\ ret.result
    /\ ret.self.oid # ret.other.oid
    /\ ret.self.positive # {}
    /\ ret.self.negative # {}

\* Lexicographic order of two sequences of integers.
SeqLess(s, t) ==
    \E i \in 1 .. (Len(t)) :
        /\ \A j \in 1 .. (i - 1) : j <= Len(s) /\ s[j] = t[j]
        /\ (i = Len(s) + 1 \/ (i <= Len(s) /\ s[i] < t[i]))

SortedChars(S) == [i \in 1 .. Cardinality(S) |-> sorted(S)[i].value.chars]

\* The order the specification describes: name, then the two counts, then
\* the sorted positive list, then the sorted negative list.
SortKey(c) ==
    << c.name.value.chars, Cardinality(c.positive), Cardinality(c.negative) >>
        \o SortedChars(c.positive) \o SortedChars(c.negative)

\* C9: exactly one of a < b, a == b, b < a holds, and a < b is the order by
\* name, then count of positives, then count of negatives, then the sorted
\* positive list, then the sorted negative list.
C9_TotalOrder ==
    ret.op = "lt" =>
        LET a == ret.self
            b == ret.other
            lt == ret.result
            eq == Category__eq__(a, b)
            gt == Category__lt__(b, a)
        IN /\ lt \/ eq \/ gt
           /\ ~(lt /\ eq) /\ ~(lt /\ gt) /\ ~(eq /\ gt)
           /\ lt <=> SeqLess(SortKey(a), SortKey(b))

\* C9 witness: a < b decided by the last key, the sorted negative lists.
C9_Witness ==
    /\ ret.op = "lt"
    /\ ret.result
    /\ ret.self.name = ret.other.name
    /\ ret.self.positive = ret.other.positive
    /\ Cardinality(ret.self.negative) = Cardinality(ret.other.negative)
    /\ ret.self.negative # ret.other.negative

\* C10: contains(a, a) is true, and a wildcard-named a with both sets empty
\* contains every b.
C10_ReflexiveAndWildcard ==
    ret.op = "contains" =>
        /\ ret.self.oid = ret.other.oid => ret.result
        /\ (/\ WildcardNamed(ret.self)
            /\ ret.self.positive = {}
            /\ ret.self.negative = {}) => ret.result

\* C10 witness: the bare wildcard contains another object of another name
\* that has positive and negative properties.
C10_Witness ==
    /\ ret.op = "contains"
    /\ ret.result
    /\ WildcardNamed(ret.self)
    /\ ret.self.positive = {} /\ ret.self.negative = {}
    /\ ret.other.name # ret.self.name
    /\ ret.other.positive # {} /\ ret.other.negative # {}

\* ------------------------------------------------------- symbol equality
\* Two symbols are the same object when they were built by the same
\* construction: same class, same wrapped str, same serial of its interner.
SameSymbol(x, y) == x = y

\* C11 as claimed: x == y on interned symbols holds exactly when x and y are
\* the same symbol object, so a name symbol and a Property are never equal,
\* even when they wrap the same str object.
C11_EqualityIsIdentity ==
    ret.op = "symbol_eq" => (ret.result <=> SameSymbol(ret.self, ret.other))

\* Where C11 fails: a name symbol and a Property wrapping one str object.
C11_CrossKindEqual ==
    /\ ret.op = "symbol_eq"
    /\ ret.self.cls = "InternedString"
    /\ ret.other.cls = "Property"
    /\ is_str(ret.self.value, ret.other.value)
    /\ ret.result

\* ------------------------------------------------------ promotion chains
\* b keeps a's name and holds at least a's positive and negative properties.
Extends(a, b) ==
    /\ b.name = a.name
    /\ a.positive \subseteq b.positive
    /\ a.negative \subseteq b.negative

\* Nothing a asserts is denied by b, nothing a denies is asserted by b.
NeverFlipped(a, b) ==
    /\ a.positive \cap b.negative = {}
    /\ a.negative \cap b.positive = {}

\* C12: along a chain of promote_properties calls that return, each Category
\* keeps its predecessor's name and holds at least its predecessor's positive
\* and negative sets, so every later Category of the chain extends every
\* earlier one, never denies what an earlier one asserts and never asserts
\* what an earlier one denies.
C12_ChainMonotone ==
    /\ [][Extends(other, other')]_vars
    /\ [](Extends(self, other) /\ NeverFlipped(self, other))

\* C12 witness: two promotions into the chain, a property the chain's first
\* Category did not mention was asserted on the way, and the last call asked
\* to deny it and returned.
C12_Witness ==
    /\ ret.op = "promote"
    /\ ret.raised = None
    /\ other.oid >= SELF_OID + 2
    /\ \E x \in other.positive \ self.positive : x \in Normalized(ret.negative)

\* ------------------------------------------------------------ concurrency
Returned(i) == sess[i].pc = "returned"

====
